---- MODULE Spec2Model ----
(***************************************************************************)
(* Receiver supervision of the WHEP-SRT gateway: the Receiver state        *)
(* machine (src/src/receiver.ts) and the Engine registry                   *)
(* (src/unnamed/part_000, the Engine whose removeReceiver disposes).       *)
(*                                                                         *)
(* Execution model: one JavaScript event loop.  Synchronous code runs to   *)
(* the next await as one atomic step.  A continuation that is runnable (an *)
(* await on a resolved promise) is a microtask and runs before any         *)
(* macrotask: process 'exit'/'data' events and timer callbacks are taken   *)
(* only when no continuation is runnable.  Callers may invoke the public   *)
(* operations between any two atomic steps in which caller code can run.   *)
(***************************************************************************)
EXTENDS Integers, Sequences, FiniteSets, TLC

\* ---- bounds of the model ----
MaxCalls == 4   \* external invocations (add/remove/removeAll/start/stop)
MaxSpawn == 3   \* processes spawned over all units
MaxUnits == 2   \* Receiver objects constructed
MaxErr == 1     \* stderr fragments kept in errorOutput

\* ---- program constants ----
BaseRetryMs == 1000
Null == -1      \* exit code null (terminated by a signal)

Ids == {"rx"}
NoId == "-"
ExitCodes == {0, 1, Null}

IDLE == "idle"
RUNNING == "running"
STOPPED == "stopped"
FAILED == "failed"
RxStatus == {IDLE, RUNNING, STOPPED, FAILED}

Units == 1..MaxUnits
Pids == 1..MaxSpawn

VARIABLES
  receivers,         \* Engine.receivers: id -> unit (0 = no entry)
  pendingReceivers,  \* Engine.pendingReceivers
  adding,            \* id whose addReceiver is between pending.add and finally
  addResult,         \* outcome of the last addReceiver call
  nUnits,            \* Receiver objects constructed so far
  rx,                \* the fields of every Receiver object
  ops,               \* invocations of start/stop/dispose, by ticket
  procs,             \* spawned child processes, by pid
  nSpawn,            \* processes spawned so far
  armed,             \* restart timers (setTimeout) not yet fired or cleared
  killTimers,        \* 2 s SIGKILL timers of killProcess not yet fired
  calls,             \* external invocations so far
  lastCall,          \* the most recent external invocation (and its id)
  hist               \* per unit, history kept for the properties only

vars == <<receivers, pendingReceivers, adding, addResult, nUnits, rx, ops,
          procs, nSpawn, armed, killTimers, calls, lastCall, hist>>

\* fault variant: the constructor leaves the unit marked as running
NewReceiverRunning ==
  [status |-> RUNNING, process |-> 0, errorOutput |-> 0,
   retryTimeoutMs |-> BaseRetryMs, retryTimeoutHandle |-> 0,
   operationMutex |-> 0, intentionalStop |-> FALSE, disposed |-> FALSE]

\* Receiver.constructor
NewReceiver ==
  [status |-> IDLE, process |-> 0, errorOutput |-> 0,
   retryTimeoutMs |-> BaseRetryMs, retryTimeoutHandle |-> 0,
   operationMutex |-> 0, intentionalStop |-> FALSE, disposed |-> FALSE]

\* st: none (not spawned), alive, gone ('exit' delivered); code: the exit
\* code; delay: the setTimeout delay of the restart timer armed on its exit
NoProc == [st |-> "none", unit |-> 0, killed |-> FALSE, signals |-> {},
           code |-> 0, delay |-> 0]

\* stopSinceArm: stop() was invoked while the current timer was armed;
\* fails: failures armed since the last manual reset of retryTimeoutMs;
\* stale: an event of a process that was not the attached one was delivered
NoHist == [stopSinceArm |-> FALSE, fails |-> 0, stale |-> FALSE]

Init ==
  /\ receivers = [i \in Ids |-> 0]
  /\ pendingReceivers = {}
  /\ adding = NoId
  /\ addResult = "none"
  /\ nUnits = 0
  /\ rx = [u \in Units |-> NewReceiver]
  /\ ops = <<>>
  /\ procs = [p \in Pids |-> NoProc]
  /\ nSpawn = 0
  /\ armed = {}
  /\ killTimers = {}
  /\ calls = 0
  /\ lastCall = [op |-> "none", id |-> NoId]
  /\ hist = [u \in Units |-> NoHist]

Tickets == 1..Len(ops)

\* fault variant: every awaited promise counts as resolved
ReleasedAlways(t) == TRUE

\* the promise an invocation awaits: resolved once the previous holder
\* called releaseLock (ticket 0 is the initial Promise.resolve())
Released(t) == IF t = 0 THEN TRUE ELSE ops[t].pc \in {"returned", "done"}

\* fault variant: killProcess resolves as soon as the signal is sent
ExitedEarly(p) == TRUE

\* the once('exit') listener of killProcess has resolved its promise
Exited(p) == procs[p].st = "gone"

\* fault variant: removeReceiver does not await dispose()
DisposeNotAwaited(t) == ops[t].rm # NoId /\ ops[t].pc # "done"

\* `await rx.dispose()` of removeReceiver: dispose() has returned
DisposeSettled(t) == ops[t].pc = "returned"

\* the invocation is inside its try block (lock held)
InSection(t) == ops[t].pc \in {"killing", "polling"}

\* a continuation is runnable: microtasks run before any macrotask
Runnable(t) ==
  \/ ops[t].pc = "waiting" /\ Released(ops[t].prev)
  \/ ops[t].pc = "killing" /\ Exited(ops[t].pid)
  \/ DisposeSettled(t)

MicrotaskPending == \E t \in Tickets : Runnable(t)

\* fault variant: other code may run in the middle of a synchronous run
QuietAlways == TRUE

\* no synchronous code is in the middle of running
Quiet == adding = NoId

Macrotask == Quiet /\ ~MicrotaskPending

\* caller code can run: not between an event callback ('exit', the restart
\* timer) and the continuation that callback has made runnable
CallerTurn ==
  /\ Quiet
  /\ \A t \in Tickets :
       /\ ~(ops[t].pc = "killing" /\ Exited(ops[t].pid))
       /\ ~(ops[t].kind = "start" /\ ops[t].flag /\ ops[t].pc = "waiting")

\* ------------------------------------------------------------------
\* Engine (registry)
\* ------------------------------------------------------------------

\* history for the properties: the invocation that holds operationMutex of u
\* is a manual start() whose body has not run yet, so that a start() invoked
\* now directly follows it (start(); start())
BackToBack(u) ==
  IF rx[u].operationMutex = 0 THEN FALSE
  ELSE LET o == ops[rx[u].operationMutex]
       IN o.kind = "start" /\ ~o.flag /\ o.pc = "waiting"

\* the ticket a new invocation on unit u gets: it captures operationMutex
\* as prevOperation and installs its own promise, synchronously
Enqueue(u, kind, flag, rm) ==
  /\ ops' = Append(ops, [u |-> u, kind |-> kind, flag |-> flag, pc |-> "waiting",
                         prev |-> rx[u].operationMutex, pid |-> 0, rm |-> rm,
                         b2b |-> kind = "start" /\ BackToBack(u)])
  /\ rx' = [rx EXCEPT ![u].operationMutex = Len(ops) + 1]

\* fault variant: the duplicate check never fires
HasNever(id) == FALSE

\* this.receivers.has(id)
Has(id) == receivers[id] # 0

\* addReceiver up to the try block: the two duplicate checks, pending.add
AddReceiverBegin(id) ==
  /\ CallerTurn
  /\ calls < MaxCalls
  /\ (~Has(id) /\ id \notin pendingReceivers) => nUnits < MaxUnits
  /\ calls' = calls + 1
  /\ lastCall' = [op |-> "add", id |-> id]
  /\ IF Has(id)
        THEN addResult' = "exists" /\ UNCHANGED <<pendingReceivers, adding>>
        ELSE IF id \in pendingReceivers
          THEN addResult' = "pending" /\ UNCHANGED <<pendingReceivers, adding>>
          ELSE /\ pendingReceivers' = pendingReceivers \cup {id}
               /\ adding' = id
               /\ addResult' = "none"
  /\ UNCHANGED <<receivers, nUnits, rx, ops, procs, nSpawn, armed, killTimers, hist>>

\* addReceiver's try/finally: new Receiver, receivers.set, pending.delete
AddReceiverFinish ==
  /\ adding # NoId
  /\ nUnits' = nUnits + 1
  /\ receivers' = [receivers EXCEPT ![adding] = nUnits + 1]
  /\ pendingReceivers' = pendingReceivers \ {adding}
  /\ adding' = NoId
  /\ addResult' = "ok"
  /\ UNCHANGED <<rx, ops, procs, nSpawn, armed, killTimers, calls, lastCall, hist>>

\* addReceiver, first statements of the try block: new Receiver(...),
\* receivers.set(id, receiver)
AddReceiverSet ==
  /\ adding # NoId
  /\ receivers[adding] = 0
  /\ nUnits' = nUnits + 1
  /\ receivers' = [receivers EXCEPT ![adding] = nUnits + 1]
  /\ UNCHANGED <<pendingReceivers, adding, addResult, rx, ops, procs, nSpawn,
                 armed, killTimers, calls, lastCall, hist>>

\* fault variant: the finally block leaves the id in pendingReceivers
AddReceiverFinallyKeep ==
  /\ adding # NoId
  /\ receivers[adding] # 0
  /\ adding' = NoId
  /\ addResult' = "ok"
  /\ UNCHANGED <<receivers, pendingReceivers, nUnits, rx, ops, procs, nSpawn,
                 armed, killTimers, calls, lastCall, hist>>

\* addReceiver, the finally block and the return: pendingReceivers.delete(id)
AddReceiverFinally ==
  /\ adding # NoId
  /\ receivers[adding] # 0
  /\ pendingReceivers' = pendingReceivers \ {adding}
  /\ adding' = NoId
  /\ addResult' = "ok"
  /\ UNCHANGED <<receivers, nUnits, rx, ops, procs, nSpawn, armed, killTimers,
                 calls, lastCall, hist>>

\* removeReceiver up to `await rx.dispose()`: dispose() is entered
\* synchronously and takes its ticket
RemoveReceiver(id) ==
  /\ CallerTurn
  /\ calls < MaxCalls
  /\ calls' = calls + 1
  /\ lastCall' = [op |-> "remove", id |-> id]
  /\ IF receivers[id] = 0
        THEN UNCHANGED <<rx, ops>>
        ELSE Enqueue(receivers[id], "dispose", FALSE, id)
  /\ UNCHANGED <<receivers, pendingReceivers, adding, addResult, nUnits, procs,
                 nSpawn, armed, killTimers, hist>>

\* removeReceiver after the await: receivers.delete(id)
RemoveResume(t) ==
  /\ Quiet
  /\ DisposeSettled(t)
  /\ receivers' = [receivers EXCEPT ![ops[t].rm] = 0]
  /\ ops' = [ops EXCEPT ![t].pc = "done"]
  /\ UNCHANGED <<pendingReceivers, adding, addResult, nUnits, rx, procs, nSpawn,
                 armed, killTimers, calls, lastCall, hist>>

\* fault variant: the status of the receiver is not looked at
CanRemoveAny(st) == TRUE

\* src/src/engine.ts: [STOPPED, FAILED, IDLE].includes(rx.getStatus())
CanRemove(st) == st \in {STOPPED, FAILED, IDLE}

\* removeReceiver of src/src/engine.ts (no await: one synchronous run):
\* delete the entry of an inactive receiver, throw for an active one;
\* lastCall.op is "removeError" when the call threw
RemoveReceiverStrict(id) ==
  /\ CallerTurn
  /\ calls < MaxCalls
  /\ calls' = calls + 1
  /\ IF receivers[id] = 0
        THEN /\ lastCall' = [op |-> "remove", id |-> id]
             /\ UNCHANGED receivers
        ELSE IF CanRemove(rx[receivers[id]].status)
          THEN /\ lastCall' = [op |-> "remove", id |-> id]
               /\ receivers' = [receivers EXCEPT ![id] = 0]
          ELSE /\ lastCall' = [op |-> "removeError", id |-> id]
               /\ UNCHANGED receivers
  /\ UNCHANGED <<pendingReceivers, adding, addResult, nUnits, rx, ops, procs,
                 nSpawn, armed, killTimers, hist>>

\* removeAllReceivers: receivers.clear()
RemoveAllReceivers ==
  /\ CallerTurn
  /\ calls < MaxCalls
  /\ calls' = calls + 1
  /\ lastCall' = [op |-> "removeAll", id |-> NoId]
  /\ receivers' = [i \in Ids |-> 0]
  /\ UNCHANGED <<pendingReceivers, adding, addResult, nUnits, rx, ops, procs,
                 nSpawn, armed, killTimers, hist>>

\* ------------------------------------------------------------------
\* Receiver: pieces of the method bodies, as functions of the fields
\* ------------------------------------------------------------------

\* fault variant: the body does not wait for the previous holder
AwaitPrevNone(t) == TRUE

\* await prevOperation
AwaitPrev(t) == Released(ops[t].prev)

\* fault variant: the process check is skipped: nothing is killed
AttachedNever(r) == FALSE

\* if (this.process)
Attached(r) == r.process # 0

\* fault variant: the timer is not cancelled
ClearTimeoutNoop(tm, h) == tm

\* clearTimeout(h) on the set of armed restart timers
ClearTimeout(tm, h) == tm \ {h}

\* fault variant: the delay is left as it is
ResetRetryKeepDelay(r) == [r EXCEPT !.retryTimeoutHandle = 0]

\* retryTimeoutMs = 1000; if (handle) { clearTimeout; handle = undefined }
ResetRetry(r) == [r EXCEPT !.retryTimeoutMs = BaseRetryMs, !.retryTimeoutHandle = 0]

\* if (handle) { clearTimeout(handle); handle = undefined }
DropHandle(r) == [r EXCEPT !.retryTimeoutHandle = 0]

\* fault variant: dispose() does not set the flag
MarkDisposedNot(r) == [r EXCEPT !.retryTimeoutHandle = 0]

\* dispose(): disposed = true; if (handle) { clearTimeout; handle = undefined }
MarkDisposed(r) == [DropHandle(r) EXCEPT !.disposed = TRUE]

\* fault variant: start() is never ignored
StartIgnoredNever(r) == FALSE

\* fault variant: start() does not look at the status
StartIgnoredOnlyDisposed(r) == r.disposed

\* fault variant: start() does not look at disposed
StartIgnoredNoDisposed(r) == r.status = RUNNING

\* the two early returns of start(): disposed, already running
StartIgnored(r) == r.disposed \/ r.status = RUNNING

\* fault variant: the spawned process is not stored
SpawnedDetached(r, p) == [r EXCEPT !.errorOutput = 0, !.status = RUNNING,
                                   !.intentionalStop = FALSE]

\* fault variant: intentionalStop is not reset for the new process
SpawnedKeepFlag(r, p) == [r EXCEPT !.errorOutput = 0, !.status = RUNNING,
                                   !.process = p]

\* fault variant: the status is not set when the process is spawned
SpawnedNoStatus(r, p) == [r EXCEPT !.errorOutput = 0, !.process = p,
                                   !.intentionalStop = FALSE]

\* errorOutput = []; status = RUNNING; process = spawn(...); intentionalStop = false
Spawned(r, p) == [r EXCEPT !.errorOutput = 0, !.status = RUNNING, !.process = p,
                           !.intentionalStop = FALSE]

\* ChildProcess.kill(sig): delivered (and killed set) only to a live process
Kill(pr, sig) == IF pr.st = "alive"
                   THEN [pr EXCEPT !.killed = TRUE, !.signals = @ \cup {sig}]
                   ELSE pr

\* the 2 s callback of killProcess: if (!killed) kill('SIGKILL')
GraceExpired(pr) == IF ~pr.killed THEN Kill(pr, "SIGKILL") ELSE pr

\* fault variant: events are not checked against the attached process
IsCurrentAlways(r, p) == TRUE

\* this.process === currentProcess, in the 'data' and 'exit' listeners
IsCurrent(r, p) == r.process = p

\* fault variant: no exit code counts as a failure
IsFailureNever(code) == FALSE

\* exit handler, code classification: if (code && code > 0)
IsFailure(code) == code # Null /\ code # 0 /\ code > 0

\* fault variant: the exit handler does not look at intentionalStop
ExitStatusByCode(r, code) == IF IsFailure(code) THEN FAILED ELSE STOPPED

\* exit handler: the status it sets for the current process
ExitStatus(r, code) ==
  IF r.intentionalStop THEN STOPPED
  ELSE IF IsFailure(code) THEN FAILED
  ELSE STOPPED

\* fault variant: every exit schedules a restart
SchedulesAlways(r, code) == TRUE

\* does the exit handler call scheduleRestart
Schedules(r, code) == ExitStatus(r, code) = FAILED

\* fault variant: the exit handler leaves the status as it is
AfterExitKeepStatus(r, p, code) == [r EXCEPT !.process = 0]

\* exit handler on the current process: fields after the handler
\* (scheduleRestart stores the new timer, named after the exited pid)
AfterExit(r, p, code) ==
  IF Schedules(r, code)
    THEN [r EXCEPT !.process = 0, !.status = FAILED, !.retryTimeoutHandle = p]
    ELSE [r EXCEPT !.process = 0, !.status = ExitStatus(r, code)]

\* fault variant: the delay is not doubled
BackoffNone(r) == r

\* the setTimeout callback: retryTimeoutMs = retryTimeoutMs * 2
Backoff(r) == [r EXCEPT !.retryTimeoutMs = r.retryTimeoutMs * 2]

\* releaseLock() in finally, the invocation returns; a dispose() called by
\* removeReceiver leaves that caller's continuation to run
Return(o) == [o EXCEPT !.pc = IF o.rm # NoId THEN "returned" ELSE "done",
                       !.prev = 0, !.pid = 0]

\* ------------------------------------------------------------------
\* Receiver: invocations
\* ------------------------------------------------------------------

\* a caller invokes start() (manual) on a receiver it holds
InvokeStart(u) ==
  /\ CallerTurn
  /\ u <= nUnits
  /\ calls < MaxCalls
  /\ calls' = calls + 1
  /\ lastCall' = [op |-> "start", id |-> NoId]
  /\ Enqueue(u, "start", FALSE, NoId)
  /\ UNCHANGED <<receivers, pendingReceivers, adding, addResult, nUnits, procs,
                 nSpawn, armed, killTimers, hist>>

\* a caller invokes stop({doAwait})
InvokeStop(u, doAwait) ==
  /\ CallerTurn
  /\ u <= nUnits
  /\ calls < MaxCalls
  /\ calls' = calls + 1
  /\ lastCall' = [op |-> "stop", id |-> NoId]
  /\ Enqueue(u, "stop", doAwait, NoId)
  /\ hist' = [hist EXCEPT ![u].stopSinceArm =
                 @ \/ rx[u].retryTimeoutHandle \in armed]
  /\ UNCHANGED <<receivers, pendingReceivers, adding, addResult, nUnits, procs,
                 nSpawn, armed, killTimers>>

\* the restart timer of scheduleRestart fires: double, then start(true)
TimerFire(p) ==
  /\ Macrotask
  /\ p \in armed
  /\ armed' = armed \ {p}
  /\ LET u == procs[p].unit IN
       /\ ops' = Append(ops, [u |-> u, kind |-> "start", flag |-> TRUE,
                               pc |-> "waiting", prev |-> rx[u].operationMutex,
                               pid |-> 0, rm |-> NoId, b2b |-> FALSE])
       /\ rx' = [rx EXCEPT ![u] = [Backoff(@) EXCEPT !.operationMutex = Len(ops) + 1]]
  /\ UNCHANGED <<receivers, pendingReceivers, adding, addResult, nUnits, procs,
                 nSpawn, killTimers, calls, lastCall, hist>>

\* ------------------------------------------------------------------
\* Receiver: method bodies (run once the lock is acquired)
\* ------------------------------------------------------------------

\* killProcess() up to the returned promise: SIGINT, arm the 2 s timer,
\* and the caller suspends until the 'exit' of that process
KillProcess(t, p) ==
  /\ procs' = [procs EXCEPT ![p] = Kill(@, "SIGINT")]
  /\ killTimers' = killTimers \cup {p}
  /\ ops' = [ops EXCEPT ![t].pc = "killing", ![t].pid = p]

\* this.process = this.processSpawner(...) and the statements around it
Spawn(t, u, r) ==
  /\ nSpawn < MaxSpawn
  /\ nSpawn' = nSpawn + 1
  /\ rx' = [rx EXCEPT ![u] = Spawned(r, nSpawn + 1)]
  /\ procs' = [procs EXCEPT ![nSpawn + 1] = [NoProc EXCEPT !.st = "alive", !.unit = u]]
  /\ ops' = [ops EXCEPT ![t] = Return(@)]
  /\ UNCHANGED killTimers

\* start(isAutoRestart), from the acquisition of the lock
StartBody(t) ==
  /\ Quiet
  /\ ops[t].kind = "start" /\ ops[t].pc = "waiting"
  /\ AwaitPrev(t)
  /\ LET u == ops[t].u
         r == rx[u]
         r1 == IF ops[t].flag THEN r ELSE ResetRetry(r)
     IN IF StartIgnored(r)
          THEN /\ ops' = [ops EXCEPT ![t] = Return(@)]
               /\ UNCHANGED <<rx, procs, nSpawn, armed, killTimers, hist>>
          ELSE /\ armed' = IF ops[t].flag THEN armed
                                          ELSE ClearTimeout(armed, r.retryTimeoutHandle)
               /\ hist' = IF ops[t].flag THEN hist ELSE [hist EXCEPT ![u].fails = 0]
               /\ IF Attached(r1)
                    THEN /\ rx' = [rx EXCEPT ![u] = [r1 EXCEPT !.intentionalStop = TRUE]]
                         /\ KillProcess(t, r1.process)
                         /\ UNCHANGED nSpawn
                    ELSE Spawn(t, u, r1)
  /\ UNCHANGED <<receivers, pendingReceivers, adding, addResult, nUnits, calls, lastCall>>

\* status = STOPPED; if (doAwait) await waitFor(...); finally releaseLock
Stopped(t, u, r) ==
  /\ rx' = [rx EXCEPT ![u] = [r EXCEPT !.status = STOPPED]]
  /\ ops' = [ops EXCEPT ![t] = IF @.flag THEN [@ EXCEPT !.pc = "polling"] ELSE Return(@)]

\* stop({doAwait}), from the acquisition of the lock
StopBody(t) ==
  /\ Quiet
  /\ ops[t].kind = "stop" /\ ops[t].pc = "waiting"
  /\ AwaitPrev(t)
  /\ LET u == ops[t].u
         r == rx[u]
         r1 == ResetRetry(r)
     IN /\ armed' = ClearTimeout(armed, r.retryTimeoutHandle)
        /\ hist' = [hist EXCEPT ![u].fails = 0]
        /\ IF Attached(r1)
             THEN /\ rx' = [rx EXCEPT ![u] = [r1 EXCEPT !.intentionalStop = TRUE]]
                  /\ KillProcess(t, r1.process)
             ELSE /\ Stopped(t, u, r1)
                  /\ UNCHANGED <<procs, killTimers>>
  /\ UNCHANGED <<receivers, pendingReceivers, adding, addResult, nUnits, nSpawn, calls, lastCall>>

\* dispose(), from the acquisition of the lock
DisposeBody(t) ==
  /\ Quiet
  /\ ops[t].kind = "dispose" /\ ops[t].pc = "waiting"
  /\ AwaitPrev(t)
  /\ LET u == ops[t].u
         r == rx[u]
         r1 == MarkDisposed(r)
     IN IF r.disposed
          THEN /\ ops' = [ops EXCEPT ![t] = Return(@)]
               /\ UNCHANGED <<rx, procs, armed, killTimers>>
          ELSE /\ armed' = ClearTimeout(armed, r.retryTimeoutHandle)
               /\ IF Attached(r1)
                    THEN /\ rx' = [rx EXCEPT ![u] = [r1 EXCEPT !.intentionalStop = TRUE]]
                         /\ KillProcess(t, r1.process)
                    ELSE /\ rx' = [rx EXCEPT ![u] = [r1 EXCEPT !.status = STOPPED]]
                         /\ ops' = [ops EXCEPT ![t] = Return(@)]
                         /\ UNCHANGED <<procs, killTimers>>
  /\ UNCHANGED <<receivers, pendingReceivers, adding, addResult, nUnits, nSpawn,
                 calls, lastCall, hist>>

\* the continuation after `await this.killProcess()` in start, stop, dispose
KillResume(t) ==
  /\ Quiet
  /\ ops[t].pc = "killing"
  /\ Exited(ops[t].pid)
  /\ LET u == ops[t].u
         r == rx[u]
     IN CASE ops[t].kind = "start" ->
               /\ Spawn(t, u, r)
               /\ UNCHANGED armed
          [] ops[t].kind = "stop" ->
               /\ armed' = ClearTimeout(armed, r.retryTimeoutHandle)
               /\ Stopped(t, u, DropHandle(r))
               /\ UNCHANGED <<procs, nSpawn, killTimers>>
          [] OTHER ->
               /\ rx' = [rx EXCEPT ![u].status = STOPPED]
               /\ ops' = [ops EXCEPT ![t] = Return(@)]
               /\ UNCHANGED <<procs, nSpawn, armed, killTimers>>
  /\ UNCHANGED <<receivers, pendingReceivers, adding, addResult, nUnits, calls, lastCall, hist>>

\* one tick of the setInterval of waitFor; on a desired status the wait
\* resolves and stop() returns
WaitForTick(t) ==
  /\ Macrotask
  /\ ops[t].pc = "polling"
  /\ IF rx[ops[t].u].status \in {STOPPED, FAILED}
       THEN ops' = [ops EXCEPT ![t] = Return(@)]
       ELSE UNCHANGED ops
  /\ UNCHANGED <<receivers, pendingReceivers, adding, addResult, nUnits, rx, procs,
                 nSpawn, armed, killTimers, calls, lastCall, hist>>

\* ------------------------------------------------------------------
\* Child process events
\* ------------------------------------------------------------------

\* 'exit' of process p with the given code: the handler attached by start
\* (and, through the state of p, the once('exit') of killProcess)
ProcessExit(p, code) ==
  /\ Macrotask
  /\ procs[p].st = "alive"
  /\ LET u == procs[p].unit
         r == rx[u]
     IN IF ~IsCurrent(r, p)
          THEN /\ procs' = [procs EXCEPT ![p].st = "gone", ![p].code = code]
               /\ hist' = [hist EXCEPT ![u].stale = TRUE]
               /\ UNCHANGED <<rx, armed>>
          ELSE /\ rx' = [rx EXCEPT ![u] = AfterExit(r, p, code)]
               /\ IF Schedules(r, code)
                    THEN /\ armed' = ClearTimeout(armed, r.retryTimeoutHandle) \cup {p}
                         /\ procs' = [procs EXCEPT ![p].st = "gone", ![p].code = code,
                                                   ![p].delay = r.retryTimeoutMs]
                         /\ hist' = [hist EXCEPT ![u].stopSinceArm = FALSE,
                                                 ![u].fails = @ + 1]
                    ELSE /\ procs' = [procs EXCEPT ![p].st = "gone", ![p].code = code]
                         /\ UNCHANGED <<armed, hist>>
  /\ UNCHANGED <<receivers, pendingReceivers, adding, addResult, nUnits, ops,
                 nSpawn, killTimers, calls, lastCall>>

\* the 2 s timer armed by killProcess fires
KillTimerFire(p) ==
  /\ Macrotask
  /\ p \in killTimers
  /\ killTimers' = killTimers \ {p}
  /\ procs' = [procs EXCEPT ![p] = GraceExpired(@)]
  /\ UNCHANGED <<receivers, pendingReceivers, adding, addResult, nUnits, rx, ops,
                 nSpawn, armed, calls, lastCall, hist>>

\* stderr 'data' of process p (it may still arrive after 'exit')
StderrData(p) ==
  /\ Macrotask
  /\ procs[p].st # "none"
  /\ LET u == procs[p].unit IN
       /\ IsCurrent(rx[u], p) => rx[u].errorOutput < MaxErr
       /\ rx' = IF IsCurrent(rx[u], p)
                  THEN [rx EXCEPT ![u].errorOutput = @ + 1]
                  ELSE rx
       /\ hist' = [hist EXCEPT ![u].stale = @ \/ rx[u].process # p]
  /\ UNCHANGED <<receivers, pendingReceivers, adding, addResult, nUnits, ops, procs,
                 nSpawn, armed, killTimers, calls, lastCall>>

\* ------------------------------------------------------------------
\* Properties
\* ------------------------------------------------------------------

LiveOf(u) == {p \in Pids : procs[p].unit = u /\ procs[p].st = "alive"}
ArmedOf(u) == {p \in armed : procs[p].unit = u}

\* C1: for one unit, no two of start, stop, dispose and auto-restart are
\* inside their locked section at the same time: no two invocations are
\* suspended inside the section together, and no body begins while another
\* invocation of the same unit is suspended inside its section (waiting for
\* the exit of a process or in the waitFor poll).
C1_MutualExclusion ==
  /\ [](\A t1, t2 \in Tickets :
          (t1 # t2 /\ ops[t1].pc \in {"killing", "polling"}
                   /\ ops[t2].pc \in {"killing", "polling"})
            => ops[t1].u # ops[t2].u)
  /\ [][\A t \in Tickets :
          (ops[t].pc = "waiting" /\ ops'[t].pc # "waiting")
            => \A t2 \in Tickets \ {t} :
                 ops[t2].u = ops[t].u => ops[t2].pc \notin {"killing", "polling"}]_vars

\* an invocation waits for the lock behind one suspended in killProcess
C1_Witness ==
  \E t1, t2 \in Tickets :
    /\ ops[t1].pc = "killing" /\ ops[t2].pc = "waiting"
    /\ ops[t1].u = ops[t2].u /\ ops[t2].prev = t1

\* C2: in every reachable state a unit has at most one live process
\* (spawned, 'exit' not yet delivered).
C2_OneLiveProcess == \A u \in Units : Cardinality(LiveOf(u)) <= 1

\* a second process of a unit is alive after the first one was killed
C2_Witness ==
  \E p1, p2 \in Pids :
    /\ procs[p1].unit = procs[p2].unit /\ procs[p1].unit # 0
    /\ procs[p1].st = "gone" /\ "SIGINT" \in procs[p1].signals
    /\ procs[p2].st = "alive"

\* C3: when stop({doAwait: true}) returns, status is STOPPED or FAILED, no
\* process is attached and no restart timer of the unit is armed.
C3_StopAwaitPost ==
  [][\A t \in Tickets :
       (ops[t].kind = "stop" /\ ops[t].flag /\ ops[t].pc # "done" /\ ops'[t].pc = "done")
         => LET u == ops[t].u IN
              /\ rx'[u].status \in {STOPPED, FAILED}
              /\ rx'[u].process = 0
              /\ \A p \in armed' : procs'[p].unit # u]_vars

\* stop({doAwait: true}) has returned after killing a process that reported
\* a non-zero exit code
C3_Witness ==
  \E t \in Tickets, p \in Pids :
    /\ ops[t].kind = "stop" /\ ops[t].flag /\ ops[t].pc = "done"
    /\ procs[p].unit = ops[t].u /\ procs[p].st = "gone"
    /\ "SIGINT" \in procs[p].signals /\ procs[p].code = 1
    /\ rx[ops[t].u].status = STOPPED

\* 2^n
RECURSIVE Pow2(_)
Pow2(n) == IF n <= 0 THEN 1 ELSE 2 * Pow2(n - 1)

\* C4: a non-zero exit of the attached process while intentionalStop is
\* false sets status FAILED and arms a restart timer with the current
\* retryTimeoutMs; and the start(true) of a fired timer, once it runs,
\* leaves the unit RUNNING with a newly spawned process attached.
C4_FailureRestarts ==
  [][/\ \A p \in Pids :
          (/\ procs[p].st = "alive" /\ procs'[p].st = "gone"
           /\ rx[procs[p].unit].process = p
           /\ ~rx[procs[p].unit].intentionalStop
           /\ procs'[p].code > 0)
            => LET u == procs[p].unit IN
                 /\ rx'[u].status = FAILED
                 /\ rx'[u].process = 0
                 /\ p \in armed'
                 /\ procs'[p].delay = rx[u].retryTimeoutMs
     /\ \A t \in Tickets :
          (/\ ops[t].kind = "start" /\ ops[t].flag
           /\ ops[t].pc = "waiting" /\ ops'[t].pc # "waiting")
            => LET u == ops[t].u IN
                 /\ nSpawn' = nSpawn + 1
                 /\ rx'[u].status = RUNNING
                 /\ rx'[u].process = nSpawn'
                 /\ procs'[nSpawn'].st = "alive"
                 /\ procs'[nSpawn'].unit = u]_vars

\* a process failed, its timer fired and the automatic restart spawned the
\* process that is now attached
C4_Witness ==
  \E p1, p2 \in Pids, t \in Tickets :
    /\ procs[p1].st = "gone" /\ procs[p1].code = 1 /\ procs[p1].delay = BaseRetryMs
    /\ p1 \notin armed
    /\ ops[t].kind = "start" /\ ops[t].flag /\ ops[t].pc = "done"
    /\ ops[t].u = procs[p1].unit /\ procs[p2].unit = procs[p1].unit
    /\ procs[p2].st = "alive" /\ rx[procs[p1].unit].process = p2
    /\ rx[procs[p1].unit].status = RUNNING

\* C5: a stop() invoked while a restart timer is armed prevents the
\* automatic restart: no start(true) spawns a process for the timer that
\* was armed when the stop was invoked.
C5_StopCancelsRestart ==
  [][\A t \in Tickets :
       (/\ ops[t].kind = "start" /\ ops[t].flag
        /\ ops[t].pc = "waiting" /\ ops'[t].pc # "waiting"
        /\ nSpawn' # nSpawn)
         => ~hist[ops[t].u].stopSinceArm]_vars

\* stop() was invoked while the timer was armed, and has returned
C5_Witness ==
  \E u \in Units, t \in Tickets :
    /\ hist[u].stopSinceArm
    /\ ops[t].u = u /\ ops[t].kind = "stop" /\ ops[t].pc = "done"
    /\ rx[u].status = STOPPED /\ ArmedOf(u) = {}
    /\ \A t2 \in Tickets : ops[t2].pc = "done"

\* C6: once disposed is set, no process is spawned for the unit and no
\* restart timer of the unit is armed.
C6_DisposedNoRestart ==
  /\ [](\A u \in Units : rx[u].disposed => \A p \in armed : procs[p].unit # u)
  /\ [][\A u \in Units : rx[u].disposed =>
          \A p \in Pids : procs'[p].unit = u => procs[p].unit = u]_vars

\* the process exited with a non-zero code in the middle of disposal and a
\* start() queued behind the dispose has returned
C6_Witness ==
  \E u \in Units, p \in Pids, t1, t2 \in Tickets :
    /\ rx[u].disposed
    /\ procs[p].unit = u /\ procs[p].st = "gone" /\ procs[p].code = 1
    /\ "SIGINT" \in procs[p].signals
    /\ ops[t1].u = u /\ ops[t1].kind = "dispose"
    /\ ops[t2].u = u /\ ops[t2].kind = "start" /\ t2 > t1 /\ ops[t2].pc = "done"

C8_CreateOnce ==
  [][/\ (lastCall'.op = "add" /\ calls' = calls + 1)
          => IF receivers[lastCall'.id] # 0 \/ lastCall'.id \in pendingReceivers
               THEN /\ addResult' \in {"exists", "pending"}
                    /\ receivers' = receivers /\ rx' = rx /\ nUnits' = nUnits
                    /\ pendingReceivers' = pendingReceivers /\ adding' = NoId
               ELSE adding' = lastCall'.id /\ receivers' = receivers
     /\ adding # NoId
          => /\ addResult' = "ok" /\ adding' = NoId
             /\ nUnits' = nUnits + 1
             /\ receivers' = [receivers EXCEPT ![adding] = nUnits + 1]
             /\ rx' = rx /\ rx[nUnits + 1].status = IDLE
             /\ pendingReceivers' = pendingReceivers \ {adding}]_vars

\* a second addReceiver with the id of a registered unit has failed
C8_Witness ==
  /\ addResult = "exists" /\ lastCall.op = "add"
  /\ receivers[lastCall.id] # 0 /\ nUnits = 1

\* C9: the k-th consecutive failure without a manual reset arms the timer
\* with BaseRetryMs * 2^(k-1), and the firing of a timer doubles
\* retryTimeoutMs.
C9_Backoff ==
  /\ [](\A p \in armed :
          /\ hist[procs[p].unit].fails >= 1
          /\ procs[p].delay = BaseRetryMs * Pow2(hist[procs[p].unit].fails - 1))
  /\ [][\A p \in armed :
          p \notin armed' /\ Len(ops') = Len(ops) + 1
            => rx'[procs[p].unit].retryTimeoutMs = 2 * rx[procs[p].unit].retryTimeoutMs]_vars

\* the third consecutive failure has armed a timer of four base delays
C9_Witness ==
  \E p \in armed :
    hist[procs[p].unit].fails = 3 /\ procs[p].delay = 4 * BaseRetryMs

C11_StartRunningNoop ==
  [][\A t \in Tickets :
       (ops[t].kind = "start" /\ ops[t].pc = "waiting" /\ ops'[t].pc # "waiting")
         => LET u == ops[t].u IN
              /\ (~rx[u].disposed /\ rx[u].status = RUNNING)
                   => /\ rx'[u] = rx[u] /\ nSpawn' = nSpawn /\ procs' = procs
                      /\ armed' = armed /\ killTimers' = killTimers
                      /\ ops'[t].pc = "done"
              /\ ops[t].b2b
                   => /\ nSpawn' = nSpawn
                      /\ ~rx[u].disposed
                           => /\ rx'[u].status = RUNNING
                              /\ LiveOf(u) = {rx'[u].process}]_vars

\* two manual start() calls were issued back to back on a unit that was not
\* running; both have returned and one process was spawned
C11_Witness ==
  \E t1, t2 \in Tickets :
    /\ ops[t2].b2b /\ ops[t2].pc = "done" /\ ops[t1].pc = "done"
    /\ t2 = t1 + 1 /\ ops[t1].u = ops[t2].u
    /\ nSpawn = 1 /\ rx[ops[t2].u].status = RUNNING
    /\ rx[ops[t2].u].process = 1 /\ procs[1].st = "alive"

\* C12: a manual start() that acquires the lock on a unit that is not
\* disposed and whose status is IDLE, STOPPED or FAILED returns in that step
\* with status RUNNING and one newly spawned process attached, the only
\* live process of the unit.
C12_StartSpawns ==
  [][\A t \in Tickets :
       (/\ ops[t].kind = "start" /\ ~ops[t].flag
        /\ ops[t].pc = "waiting" /\ ops'[t].pc # "waiting"
        /\ ~rx[ops[t].u].disposed
        /\ rx[ops[t].u].status \in {IDLE, STOPPED, FAILED})
         => LET u == ops[t].u IN
              /\ ops'[t].pc = "done"
              /\ nSpawn' = nSpawn + 1
              /\ rx'[u].status = RUNNING
              /\ rx'[u].process = nSpawn'
              /\ procs[nSpawn'].st = "none"
              /\ {p \in Pids : procs'[p].unit = u /\ procs'[p].st = "alive"} = {nSpawn'}]_vars

\* a unit left FAILED by a crash of its process, with the restart timer
\* still armed at that moment, has been started again by a manual start()
C12_Witness ==
  \E t \in Tickets, p \in Pids :
    /\ ops[t].kind = "start" /\ ~ops[t].flag /\ ops[t].pc = "done"
    /\ procs[p].unit = ops[t].u /\ procs[p].st = "gone" /\ procs[p].code = 1
    /\ procs[p].delay = BaseRetryMs /\ hist[ops[t].u].fails = 0
    /\ rx[ops[t].u].status = RUNNING /\ rx[ops[t].u].process = p + 1
    /\ procs[p + 1].st = "alive"
    /\ \A t2 \in Tickets : ~(ops[t2].kind = "start" /\ ops[t2].flag)

\* C13 as stated: on an exit of the attached process that is not
\* intentional, exit code 0 gives status STOPPED with no restart timer, and
\* every other termination (a non-zero code, or no exit code at all) gives
\* status FAILED with the restart timer armed.
C13_ExitClassification ==
  [][\A p \in Pids :
       (/\ procs[p].st = "alive" /\ procs'[p].st = "gone"
        /\ rx[procs[p].unit].process = p
        /\ ~rx[procs[p].unit].intentionalStop)
         => LET u == procs[p].unit IN
              IF procs'[p].code = 0
                THEN rx'[u].status = STOPPED /\ p \notin armed'
                ELSE rx'[u].status = FAILED /\ p \in armed']_vars

\* C14 as stated: when the 2 s timer of killProcess fires and the process it
\* was armed for has not delivered its 'exit', SIGKILL is sent to that
\* process.
C14_ForceKill ==
  [][\A p \in Pids :
       (p \in killTimers /\ p \notin killTimers' /\ procs[p].st = "alive")
         => "SIGKILL" \in procs'[p].signals]_vars

\* C15: a dispose() that acquires the lock on a unit that is already
\* disposed, or after an earlier dispose() of the unit, returns without
\* changing any field of the unit, any process (no signal is sent) or any
\* timer; and a unit is disposed once a dispose() of it has run.
C15_DisposeIdempotent ==
  [][\A t \in Tickets :
       (ops[t].kind = "dispose" /\ ops[t].pc = "waiting" /\ ops'[t].pc # "waiting")
         => LET u == ops[t].u
                second == \E t1 \in 1..(t - 1) :
                            ops[t1].kind = "dispose" /\ ops[t1].u = u
            IN /\ second => rx[u].disposed
               /\ (second \/ rx[u].disposed)
                    => /\ rx'[u] = rx[u] /\ procs' = procs /\ nSpawn' = nSpawn
                       /\ armed' = armed /\ killTimers' = killTimers
                       /\ ops'[t].pc \in {"returned", "done"}]_vars

\* two dispose() calls of one unit have returned, the first of which killed
\* the attached process, and a start() was invoked between them
C15_Witness ==
  \E t1, t2, t3 \in Tickets, p \in Pids :
    /\ t1 < t2 /\ t2 < t3
    /\ ops[t1].kind = "dispose" /\ ops[t3].kind = "dispose"
    /\ ops[t2].kind = "start"
    /\ ops[t1].u = ops[t3].u /\ ops[t2].u = ops[t1].u
    /\ ops[t1].pc = "done" /\ ops[t2].pc = "done" /\ ops[t3].pc = "done"
    /\ rx[ops[t1].u].disposed /\ rx[ops[t1].u].status = STOPPED

\* C16 as stated: every receiver that has been created reaches status
\* RUNNING with a spawned process attached, whether or not a start is
\* requested for it.
C16_AutoStart ==
  \A u \in Units : (nUnits >= u) ~> (rx[u].status = RUNNING /\ rx[u].process # 0)

\* the units on which start() has been invoked (manually or by a timer)
StartInvoked == {ops[t].u : t \in {t1 \in Tickets : ops[t1].kind = "start"}}

\* the units on which some operation (start, stop, dispose) has been invoked
Invoked == {ops[t].u : t \in Tickets}

\* C17 as stated: addReceiver constructs a unit that is IDLE with no
\* process and no restart timer and spawns nothing, and a unit on which no
\* start() has been invoked is IDLE.
C17_Original ==
  /\ [][adding # NoId
          => /\ rx'[nUnits'].status = IDLE /\ rx'[nUnits'].process = 0
             /\ rx'[nUnits'].retryTimeoutHandle = 0 /\ ArmedOf(nUnits') = {}
             /\ nSpawn' = nSpawn /\ procs' = procs /\ armed' = armed]_vars
  /\ [](\A u \in 1..nUnits : u \notin StartInvoked => rx[u].status = IDLE)

\* C17 amended: addReceiver constructs a unit that is IDLE with no process
\* and no restart timer and spawns nothing; a unit on which no operation
\* has been invoked is IDLE; and a unit on which no start() has been invoked
\* is IDLE or STOPPED and has no process, live or attached, and no restart
\* timer.
C17_CreateIdle ==
  /\ [][adding # NoId
          => /\ rx'[nUnits'].status = IDLE /\ rx'[nUnits'].process = 0
             /\ rx'[nUnits'].retryTimeoutHandle = 0 /\ ArmedOf(nUnits') = {}
             /\ nSpawn' = nSpawn /\ procs' = procs /\ armed' = armed]_vars
  /\ [](\A u \in 1..nUnits :
          /\ u \notin Invoked => rx[u].status = IDLE
          /\ u \notin StartInvoked
               => /\ rx[u].status \in {IDLE, STOPPED}
                  /\ rx[u].process = 0 /\ rx[u].retryTimeoutHandle = 0
                  /\ \A p \in Pids : procs[p].unit # u)

\* a created unit is still IDLE while another unit, created before it, has
\* been stopped without ever being started
C17_Witness ==
  \E u1, u2 \in 1..nUnits, t \in Tickets :
    /\ u1 < u2 /\ u2 \notin Invoked /\ rx[u2].status = IDLE /\ rx[u2].process = 0
    /\ u1 \notin StartInvoked
    /\ ops[t].u = u1 /\ ops[t].kind = "stop" /\ ops[t].pc = "done"
    /\ rx[u1].status = STOPPED /\ addResult = "ok"

C19_IntentionalExit ==
  /\ [][\A p \in Pids :
          (/\ procs[p].st = "alive" /\ procs'[p].st = "gone"
           /\ rx[procs[p].unit].process = p
           /\ rx[procs[p].unit].intentionalStop)
            => LET u == procs[p].unit IN
                 /\ rx'[u].status = STOPPED /\ rx'[u].process = 0
                 /\ armed' = armed /\ p \notin armed'
                 /\ rx'[u].retryTimeoutHandle = rx[u].retryTimeoutHandle]_vars
  /\ [](\A t \in Tickets :
          (ops[t].kind = "stop" /\ ops[t].pc = "killing")
            => LET u == ops[t].u IN
                 /\ rx[u].intentionalStop
                 /\ procs[ops[t].pid].st = "alive" => rx[u].process = ops[t].pid
                 /\ procs[ops[t].pid].st = "gone"
                      => rx[u].status = STOPPED /\ ArmedOf(u) = {})

\* the process stop() is waiting for has exited with a non-zero code; the
\* stop() has not resumed yet
C19_Witness ==
  \E t \in Tickets :
    /\ ops[t].kind = "stop" /\ ops[t].pc = "killing"
    /\ procs[ops[t].pid].st = "gone" /\ procs[ops[t].pid].code = 1
    /\ rx[ops[t].u].status = STOPPED /\ rx[ops[t].u].process = 0

\* C20: an 'exit' or stderr 'data' event of a process that is not the
\* attached process of its unit changes no field of any unit, no restart
\* timer and no kill timer (the first such event of a unit marks the step).
C20_StaleEventIgnored ==
  [][\A u \in Units :
       (~hist[u].stale /\ hist'[u].stale)
         => /\ rx' = rx /\ armed' = armed /\ killTimers' = killTimers
            /\ ops' = ops /\ receivers' = receivers]_vars

\* stderr data of an exited process was delivered after the unit had been
\* restarted with a new process, whose output is kept
C20_Witness ==
  \E u \in Units, p \in Pids :
    /\ hist[u].stale
    /\ procs[p].unit = u /\ procs[p].st = "gone"
    /\ rx[u].process # 0 /\ rx[u].process # p /\ rx[u].status = RUNNING
    /\ rx[u].errorOutput = 0

\* C21: the invocations of one unit enter their locked section in the order
\* of their invocation (tickets are numbered in that order, a timer's
\* start(true) included): when the body of an invocation begins, the body
\* of every earlier invocation of the unit has completed, and no later
\* invocation of the unit has begun.
C21_Fifo ==
  [][\A t \in Tickets :
       (ops[t].pc = "waiting" /\ ops'[t].pc # "waiting")
         => \A t2 \in Tickets \ {t} :
              ops[t2].u = ops[t].u
                => IF t2 < t THEN ops[t2].pc \in {"returned", "done"}
                             ELSE ops[t2].pc = "waiting"]_vars

\* three invocations of one unit: the first has returned, the second holds
\* the lock while it waits for the exit of the process, the third is queued
C21_Witness ==
  \E t1, t2, t3 \in Tickets :
    /\ t1 < t2 /\ t2 < t3
    /\ ops[t1].u = ops[t2].u /\ ops[t2].u = ops[t3].u
    /\ ops[t1].pc = "done" /\ ops[t2].pc = "killing" /\ ops[t3].pc = "waiting"
    /\ ops[t3].prev = t2

\* the most invocations a behaviour can hold: one per call, one per timer
MaxOps == MaxCalls + MaxSpawn

\* C22 as stated: every invocation of start, stop or dispose eventually
\* returns (releasing the lock), given that a process exits once SIGKILL
\* was sent to it; invocations that cannot proceed only because the model
\* spawns no more processes are left out.
C22_OpsReturn ==
  \A t \in 1..MaxOps :
    (t \in Tickets)
      ~> (t \in Tickets /\ (ops[t].pc \in {"returned", "done"} \/ nSpawn = MaxSpawn))

\* C23 as stated: a start() or stop() that acquires the lock on a disposed
\* unit returns without changing any field of the unit, any process or any
\* timer.
C23_IgnoredAfterDispose ==
  [][\A t \in Tickets :
       (/\ ops[t].kind \in {"start", "stop"}
        /\ ops[t].pc = "waiting" /\ ops'[t].pc # "waiting"
        /\ rx[ops[t].u].disposed)
         => /\ rx'[ops[t].u] = rx[ops[t].u]
            /\ procs' = procs /\ armed' = armed /\ killTimers' = killTimers]_vars

\* the units whose dispose() has completed
DisposeCompleted ==
  {ops[t].u : t \in {t1 \in Tickets : /\ ops[t1].kind = "dispose"
                                      /\ ops[t1].pc \in {"returned", "done"}}}

\* C24: in every state in which a dispose() of a unit has completed, the
\* status of the unit is STOPPED, no process is attached to it and none of
\* its processes is alive.
C24_DisposedStaysStopped ==
  \A u \in DisposeCompleted :
    /\ rx[u].status = STOPPED /\ rx[u].process = 0
    /\ LiveOf(u) = {} /\ ArmedOf(u) = {}

\* after the dispose() of a unit whose process had failed and been
\* restarted, a stop() and a start() of the unit have run
C24_Witness ==
  \E u \in DisposeCompleted, t1, t2 \in Tickets, p \in Pids :
    /\ ops[t1].u = u /\ ops[t1].kind = "dispose" /\ ops[t1].pc = "done"
    /\ ops[t2].u = u /\ ops[t2].kind \in {"start", "stop"} /\ ~ops[t2].flag
    /\ t2 > t1 /\ ops[t2].pc = "done"
    /\ procs[p].unit = u /\ "SIGINT" \in procs[p].signals /\ procs[p].st = "gone"
    /\ rx[u].status = STOPPED

\* C25: every spawn leaves intentionalStop false, and the flag stays false
\* for as long as the attached process has not been signalled; so a
\* non-zero exit of an attached process that was never signalled sets
\* status FAILED and arms the restart timer, also when an earlier process
\* of the unit was killed by stop().
C25_FlagReset ==
  /\ [](\A u \in Units :
          (rx[u].process # 0 /\ procs[rx[u].process].signals = {})
            => ~rx[u].intentionalStop)
  /\ [][\A p \in Pids :
          (/\ procs[p].st = "alive" /\ procs'[p].st = "gone"
           /\ rx[procs[p].unit].process = p
           /\ procs[p].signals = {}
           /\ procs'[p].code > 0)
            => /\ rx'[procs[p].unit].status = FAILED
               /\ p \in armed']_vars

\* a process was killed by stop(), the unit was started again and the new
\* process exited with a non-zero code: the unit is FAILED, its timer armed
C25_Witness ==
  \E p1, p2 \in Pids, t \in Tickets :
    /\ p1 < p2 /\ procs[p1].unit = procs[p2].unit
    /\ ops[t].kind = "stop" /\ ops[t].u = procs[p1].unit /\ ops[t].pc = "done"
    /\ procs[p1].st = "gone" /\ "SIGINT" \in procs[p1].signals
    /\ procs[p2].st = "gone" /\ procs[p2].code = 1 /\ procs[p2].signals = {}
    /\ p2 \in armed /\ rx[procs[p2].unit].status = FAILED

\* C26: whenever a process is attached to a unit the status of the unit is
\* RUNNING (and that process is alive); the step that attaches a process
\* sets the status in the same synchronous run.
C26_AttachedIsRunning ==
  \A u \in Units :
    rx[u].process # 0
      => /\ rx[u].status = RUNNING
         /\ procs[rx[u].process].st = "alive"
         /\ procs[rx[u].process].unit = u

\* a stop() is queued behind a start() that was not ignored, on a unit that
\* had been FAILED: the process is attached and the status is RUNNING
C26_Witness ==
  \E t1, t2 \in Tickets, p \in Pids :
    /\ t1 < t2 /\ ops[t1].u = ops[t2].u
    /\ ops[t1].kind = "start" /\ ops[t1].pc = "done"
    /\ ops[t2].kind = "stop" /\ ops[t2].pc = "waiting"
    /\ procs[p].unit = ops[t1].u /\ procs[p].st = "gone" /\ procs[p].code = 1
    /\ rx[ops[t1].u].process > p /\ rx[ops[t1].u].status = RUNNING

\* C27 as stated: stop({doAwait: false}) does not wait for the exit of the
\* process: once it has the lock it returns in the same run, also when a
\* process is attached.
C27_StopNoWait ==
  [][\A t \in Tickets :
       (/\ ops[t].kind = "stop" /\ ~ops[t].flag
        /\ ops[t].pc = "waiting" /\ ops'[t].pc # "waiting")
         => ops'[t].pc = "done"]_vars

\* the failures of unit u that armed a restart timer
FailuresOf(u) == {p \in Pids : procs[p].unit = u /\ procs[p].delay > 0}

\* the automatic restarts of unit u
AutoStartsOf(u) ==
  {t \in Tickets : ops[t].u = u /\ ops[t].kind = "start" /\ ops[t].flag}

\* C28: in every state a unit has at most one armed restart timer, the one
\* retryTimeoutHandle refers to; and the automatic restarts of a unit never
\* outnumber the failures that armed a timer.
C28_OneTimer ==
  \A u \in Units :
    /\ Cardinality(ArmedOf(u)) <= 1
    /\ ArmedOf(u) \subseteq {rx[u].retryTimeoutHandle}
    /\ Cardinality(AutoStartsOf(u)) + Cardinality(ArmedOf(u))
         <= Cardinality(FailuresOf(u))

\* the timer of a second failure is armed after a manual start() had
\* cancelled the timer of the first
C28_Witness ==
  \E p1, p2 \in Pids :
    /\ p1 < p2 /\ procs[p1].unit = procs[p2].unit
    /\ procs[p1].delay > 0 /\ p1 \notin armed
    /\ AutoStartsOf(procs[p1].unit) = {}
    /\ p2 \in armed /\ rx[procs[p2].unit].retryTimeoutHandle = p2

\* C29 as stated: in every state, the steps inside addReceiver included,
\* no id is both in pendingReceivers and in receivers.
C29_Original ==
  \A id \in Ids : ~(id \in pendingReceivers /\ receivers[id] # 0)

\* C29 amended: pendingReceivers holds at most the id of the addReceiver
\* call that is running, and nothing between calls; an id is both pending
\* and present only inside that call, after receivers.set and before the
\* finally block.
C29_PendingOnlyInCall ==
  /\ pendingReceivers \subseteq {adding} \ {NoId}
  /\ Quiet => pendingReceivers = {}
  /\ \A id \in Ids : (id \in pendingReceivers /\ receivers[id] # 0) => adding = id

\* inside addReceiver, after receivers.set(id) and before the finally block
C29_Witness ==
  /\ adding # NoId /\ adding \in pendingReceivers
  /\ receivers[adding] # 0 /\ rx[receivers[adding]].status = IDLE

\* C30 as stated: when removeReceiver(id) resumes after its dispose() and
\* deletes the entry of id, that entry is absent or is the unit the call
\* disposed.
C30_RemoveOwnUnit ==
  [][\A t \in Tickets :
       (ops[t].rm # NoId /\ ops[t].pc = "returned" /\ ops'[t].pc = "done")
         => receivers[ops[t].rm] \in {0, ops[t].u}]_vars

\* the units that have an entry in the registry
Registered == {receivers[id] : id \in Ids} \ {0}

\* C31 as stated: every constructed unit that has no entry in the registry
\* has no process attached and no restart timer armed.
C31_UnregisteredIdle ==
  \A u \in (1..nUnits) \ Registered :
    rx[u].process = 0 /\ ArmedOf(u) = {} /\ LiveOf(u) = {}

\* C32: whenever a restart timer of a unit is armed, the status of the unit
\* is FAILED, no process is attached, the unit is not disposed, and the
\* timer is the one retryTimeoutHandle refers to.
C32_ArmedIsFailed ==
  \A p \in armed :
    LET u == procs[p].unit IN
      /\ rx[u].status = FAILED /\ rx[u].process = 0 /\ ~rx[u].disposed
      /\ rx[u].retryTimeoutHandle = p /\ procs[p].st = "gone"

\* a restart timer is armed while a removeReceiver call is waiting for the
\* lock of the unit, before its dispose() has run
C32_Witness ==
  \E p \in armed, t \in Tickets :
    /\ ops[t].u = procs[p].unit /\ ops[t].kind = "dispose" /\ ops[t].pc = "waiting"
    /\ rx[procs[p].unit].status = FAILED /\ procs[p].code = 1

\* C33: whenever the status of a unit is RUNNING a process is attached to
\* it, and that process is alive: no exit leaves the status RUNNING.
C33_RunningIsAttached ==
  \A u \in Units :
    rx[u].status = RUNNING
      => /\ rx[u].process # 0
         /\ procs[rx[u].process].st = "alive"

\* a unit is RUNNING with the process an automatic restart spawned, after
\* the exit of its first process
C33_Witness ==
  \E u \in Units, t \in Tickets, p \in Pids :
    /\ ops[t].u = u /\ ops[t].kind = "start" /\ ops[t].flag /\ ops[t].pc = "done"
    /\ procs[p].unit = u /\ procs[p].st = "gone" /\ procs[p].code = 1
    /\ rx[u].status = RUNNING /\ rx[u].process = p + 1
    /\ rx[u].retryTimeoutMs = 2 * BaseRetryMs

\* C34: pendingReceivers is empty whenever no addReceiver call is in the
\* middle of running, the finally block empties it when the call returns,
\* and no addReceiver call ever finds its id pending.
C34_PendingEmptied ==
  /\ [](adding = NoId => pendingReceivers = {})
  /\ [](addResult # "pending")
  /\ [][(adding # NoId /\ adding' = NoId)
          => /\ adding \in pendingReceivers /\ pendingReceivers' = {}
             /\ receivers'[adding] # 0]_vars

\* a second receiver has been created after the first was removed, and
\* nothing is pending
C34_Witness ==
  /\ nUnits = 2 /\ addResult = "ok" /\ adding = NoId
  /\ pendingReceivers = {} /\ lastCall.op = "add"
  /\ receivers[lastCall.id] = 2

Next ==
  \/ \E id \in Ids : AddReceiverBegin(id)
  \/ AddReceiverFinish
  \/ \E id \in Ids : RemoveReceiver(id)
  \/ \E t \in Tickets : RemoveResume(t)
  \/ RemoveAllReceivers
  \/ \E u \in Units : InvokeStart(u)
  \/ \E u \in Units, d \in BOOLEAN : InvokeStop(u, d)
  \/ \E p \in Pids : TimerFire(p)
  \/ \E t \in Tickets : StartBody(t)
  \/ \E t \in Tickets : StopBody(t)
  \/ \E t \in Tickets : DisposeBody(t)
  \/ \E t \in Tickets : KillResume(t)
  \/ \E t \in Tickets : WaitForTick(t)
  \/ \E p \in Pids, code \in ExitCodes : ProcessExit(p, code)
  \/ \E p \in Pids : KillTimerFire(p)
  \/ \E p \in Pids : StderrData(p)

Spec == Init /\ [][Next]_vars

\* the program with the Engine of src/src/engine.ts: removeReceiver checks
\* the status and never calls dispose()
NextStrict ==
  \/ \E id \in Ids : AddReceiverBegin(id)
  \/ AddReceiverFinish
  \/ \E id \in Ids : RemoveReceiverStrict(id)
  \/ RemoveAllReceivers
  \/ \E u \in Units : InvokeStart(u)
  \/ \E u \in Units, d \in BOOLEAN : InvokeStop(u, d)
  \/ \E p \in Pids : TimerFire(p)
  \/ \E t \in Tickets : StartBody(t)
  \/ \E t \in Tickets : StopBody(t)
  \/ \E t \in Tickets : KillResume(t)
  \/ \E t \in Tickets : WaitForTick(t)
  \/ \E p \in Pids, code \in ExitCodes : ProcessExit(p, code)
  \/ \E p \in Pids : KillTimerFire(p)
  \/ \E p \in Pids : StderrData(p)

SpecStrict == Init /\ [][NextStrict]_vars

\* the program with addReceiver's try block and finally block as two steps
NextSteps ==
  \/ \E id \in Ids : AddReceiverBegin(id)
  \/ AddReceiverSet
  \/ AddReceiverFinally
  \/ \E id \in Ids : RemoveReceiver(id)
  \/ \E t \in Tickets : RemoveResume(t)
  \/ RemoveAllReceivers
  \/ \E u \in Units : InvokeStart(u)
  \/ \E u \in Units, d \in BOOLEAN : InvokeStop(u, d)
  \/ \E p \in Pids : TimerFire(p)
  \/ \E t \in Tickets : StartBody(t)
  \/ \E t \in Tickets : StopBody(t)
  \/ \E t \in Tickets : DisposeBody(t)
  \/ \E t \in Tickets : KillResume(t)
  \/ \E t \in Tickets : WaitForTick(t)
  \/ \E p \in Pids, code \in ExitCodes : ProcessExit(p, code)
  \/ \E p \in Pids : KillTimerFire(p)
  \/ \E p \in Pids : StderrData(p)

SpecSteps == Init /\ [][NextSteps]_vars

\* continuations of awaits and the rest of a synchronous run: always taken
Continuations ==
  \/ AddReceiverFinish
  \/ \E t \in Tickets : RemoveResume(t)
  \/ \E t \in Tickets : StartBody(t)
  \/ \E t \in Tickets : StopBody(t)
  \/ \E t \in Tickets : DisposeBody(t)
  \/ \E t \in Tickets : KillResume(t)

\* setTimeout / setInterval callbacks: an armed timer eventually fires
Timers ==
  \/ \E p \in Pids : TimerFire(p)
  \/ \E p \in Pids : KillTimerFire(p)
  \/ \E t \in Tickets : WaitForTick(t)

\* the event loop runs every runnable continuation and every due timer;
\* nothing obliges a caller to invoke an operation or a process to exit
FairSpec == Spec /\ WF_vars(Continuations) /\ WF_vars(Timers)

\* the exit of process p after SIGKILL was sent to it
KilledExit(p) ==
  /\ "SIGKILL" \in procs[p].signals
  /\ \E code \in ExitCodes : ProcessExit(p, code)

\* FairSpec, and a process that was sent SIGKILL exits
FairSpecKill == FairSpec /\ \A p \in Pids : WF_vars(KilledExit(p))

====
